---- MODULE Spec2Model ----
(***************************************************************************)
(* A model of the EAT framework's trust pipeline (src/eat/security.py),    *)
(* catalog model (src/eat/discovery.py) and invocation client              *)
(* (src/eat/mcp_client.py).                                                *)
(*                                                                         *)
(* Python values are modelled as follows.  A dict key that is absent, and  *)
(* the value None, are the string Absent.  Byte strings, URLs and hex      *)
(* digests are TLA+ strings.  An HTTP exchange is a record: net = "error"  *)
(* is a failure raised by the transport (connection refused, timeout),     *)
(* net = "ok" carries the status and the body the server sent.             *)
(***************************************************************************)
EXTENDS Integers, Sequences, FiniteSets, TLC

VARIABLES
    url,                \* Catalog.url
    verify_signatures,  \* Catalog.verify_signatures (Catalog._verifier is set iff TRUE)
    catalog_data,       \* Catalog._catalog_data
    tools_cache,        \* Catalog._tools
    accepted_via,       \* history: the code path that produced catalog_data
    checked,            \* history: the <<spec_url, spec_hash>> pairs whose digest check passed
    fetched,            \* history: some fetch() of the Catalog has returned
    last,               \* the last Catalog operation: its inputs and what the caller got
    session,            \* MCPClient._session: 0 for None, n for the n-th session made
    calls,              \* the invocations of the MCPClient
    sessions,           \* the aiohttp.ClientSession objects the MCPClient has made
    closers,            \* the close() calls on the MCPClient that stand at their await
    scope,              \* how the MCPClient is used: by its owner, in a with block, by Tool.call
    call                \* the last call of a function of security.py: inputs and outcome

vars ==
    <<url, verify_signatures, catalog_data, tools_cache, accepted_via, checked, fetched,
      last, call, session, calls, sessions, closers, scope>>

catalog_vars ==
    <<url, verify_signatures, catalog_data, tools_cache, accepted_via, checked, fetched, last>>

session_vars == <<sessions, closers, scope>>

mcp_vars == <<session, calls, session_vars>>

-----------------------------------------------------------------------------
(* Bounds of the model *)

\* the longest tool list of a catalog document
MaxTools == 2
\* the longest verificationMethod list of a did.json and key list of a jwks.json
MaxEntries == 2

-----------------------------------------------------------------------------
(* Python values *)

Absent == "<absent>"

\* Python truthiness of a str-or-None value: None and "" are falsy
Truthy(s) == s # Absent /\ s # ""

\* str.endswith
EndsWith(s, suffix) ==
    /\ Len(suffix) <= Len(s)
    /\ SubSeq(s, Len(s) - Len(suffix) + 1, Len(s)) = suffix

\* the sequences over S of length at most n
SeqsUpTo(S, n) == UNION {[1..k -> S] : k \in 0..n}

\* the first element of the finite, non-empty set S of integers
Min(S) == CHOOSE x \in S : \A y \in S : x <= y

-----------------------------------------------------------------------------
(* HTTP exchanges *)

\* an exchange that raised: no_body is the empty body of the kind the URL serves
NetError(no_body) == [net |-> "error", status |-> 0, body |-> no_body]

HttpResp(status, body) == [net |-> "ok", status |-> status, body |-> body]

\* the statuses servers answer with in the model: two success statuses, one below
\* 400 that is not a success status, a client error
Statuses == {200, 204, 304, 404}

\* aiohttp's ClientResponse.raise_for_status raises when the status is not below 400
raises_for_status(resp) == resp.status >= 400

-----------------------------------------------------------------------------
(* Digests *)

\* the documents a spec_url may serve
Contents == {"openapi-A", "openapi-B"}

\* hashlib.sha256(b"").hexdigest(): the digest of the empty input, 64 hex digits
EmptyInputDigest == "e3b0c44298fc1c149afbf4c8996fb92427ae41e4649b934ca495991b7852b855"

\* a digest function that gives the empty input no value of its own
sha256_of_name(content) == "sha256:" \o content

\* hashlib.sha256(content).hexdigest(): an injective map from byte strings to hex
\* strings (collisions are not modelled); the digest of the empty input is the
\* value SHA-256 gives it
compute_sha256(content) ==
    IF content = "" THEN EmptyInputDigest ELSE "sha256:" \o content

\* verify_content_integrity(url, expected_hash) of security.py and
\* Catalog._verify_content_integrity of discovery.py (the same body): resp is what
\* session.get(url) produced.  Any exception is caught and gives False.
verify_content_integrity_ignoring_status(resp, expected_hash) ==
    IF resp.net = "error" THEN FALSE
    ELSE compute_sha256(resp.body) = expected_hash

verify_content_integrity(resp, expected_hash) ==
    IF resp.net = "error" THEN FALSE
    ELSE IF raises_for_status(resp) THEN FALSE
    ELSE compute_sha256(resp.body) = expected_hash

-----------------------------------------------------------------------------
(* Catalog documents *)

\* a tool record of a catalog: a dict with these keys (Absent: no such key)
ToolSpec(name, spec_url, spec_hash) ==
    [name |-> name, spec_url |-> spec_url, spec_hash |-> spec_hash]

\* _catalog_data is None
NoData == [kind |-> "none", version |-> Absent, has_tools |-> FALSE, tools |-> <<>>]

\* a JSON object: has_tools says whether it has the key 'tools'
Dict(version, has_tools, tools) ==
    [kind |-> "dict", version |-> version, has_tools |-> has_tools, tools |-> tools]

\* the JSON object {}
EmptyDict == Dict(Absent, FALSE, <<>>)

\* a JSON value that is not an object: a non-empty list
JsonList == [kind |-> "list", version |-> Absent, has_tools |-> FALSE, tools |-> <<>>]

\* bool(data) in Python: None and {} are falsy
DataTruthy(data) ==
    \/ data.kind = "list"
    \/ data.kind = "dict" /\ (data.version # Absent \/ data.has_tools)

\* data.get('tools', []) of a dict
GetTools(data) == IF data.has_tools THEN data.tools ELSE <<>>

\* the condition `spec_url and expected_hash` of Catalog.verify: the record carries a
\* spec reference
HasSpecRef(tool_spec) == Truthy(tool_spec.spec_url) /\ Truthy(tool_spec.spec_hash)

-----------------------------------------------------------------------------
(* Keys, JSON Web Keys, PEM strings and JSON Web Signatures *)

\* the RSA key pairs of the model, named by their private key
KeyPairs == {"K1", "K2"}

\* the public key object of a key pair
PublicKey(private_key) == "pub:" \o private_key

\* a JWK dict holding the public key of a key pair, one that is no RSA key, and the
\* value of a missing 'publicKeyJwk'
Jwk(private_key) == [kty |-> "RSA", n |-> private_key]
BadJwk == [kty |-> "oct", n |-> "x"]
NoJwk == [kty |-> Absent, n |-> Absent]

Raise == [kind |-> "raise", key |-> Absent]
Key(k) == [kind |-> "key", key |-> k]

\* jwt.algorithms.RSAAlgorithm.from_jwk(json.dumps(jwk)): the key, or an exception
from_jwk(jwk) == IF jwk.kty = "RSA" THEN Key(PublicKey(jwk.n)) ELSE Raise

\* a PEM text of the public key of a key pair; any other string is no PEM text
Pem(private_key) == "PEM:" \o private_key

\* CatalogVerifier._load_public_key_from_string: the key, or SecurityError
load_public_key_from_string(key_string) ==
    IF Len(key_string) > 4 /\ SubSeq(key_string, 1, 4) = "PEM:"
    THEN Key(PublicKey(SubSeq(key_string, 5, Len(key_string))))
    ELSE Raise

\* A compact JWS: the header fields alg and kid, the payload, and the signature,
\* which records the private key that made it and the header and payload it was
\* made over.
Token(alg, kid, payload, sig) == [alg |-> alg, kid |-> kid, payload |-> payload, sig |-> sig]

Signature(private_key, alg, kid, payload) ==
    [key |-> private_key, alg |-> alg, kid |-> kid, payload |-> payload]

\* jwt.encode(payload, private_key, algorithm, headers={'alg', 'typ', 'kid'?})
jwt_encode(payload, private_key, algorithm, kid) ==
    Token(algorithm, kid, payload, Signature(private_key, algorithm, kid, payload))

\* the text of an HTTP body: a JSON text (of the value val), a compact JWS, or neither
NoToken == Token(Absent, Absent, NoData, Signature(Absent, Absent, Absent, NoData))
JsonText(val) == [fmt |-> "json", val |-> val, tok |-> NoToken]
JwsText(tok) == [fmt |-> "jws", val |-> NoData, tok |-> tok]
Garbage == [fmt |-> "garbage", val |-> NoData, tok |-> NoToken]

\* the signature of tok is one made with the private key of public_key, with tok's
\* algorithm, over tok's header and payload
SignatureVerifies(tok, public_key) ==
    /\ public_key = PublicKey(tok.sig.key)
    /\ tok.sig.alg = tok.alg
    /\ tok.sig.kid = tok.kid
    /\ tok.sig.payload = tok.payload

RsaAlgorithms == {"RS256", "RS384"}

Decoded(kind, doc) == [kind |-> kind, doc |-> doc]

\* jwt.decode(text, key, algorithms=algorithms, options={"verify_exp": False}) with an
\* RSA public key object: the payload, jwt.InvalidTokenError, or another exception
\* (alg "none" and the HMAC algorithms refuse an RSA key object).
jwt_decode(text, public_key, algorithms) ==
    IF text.fmt # "jws" THEN Decoded("InvalidTokenError", NoData)
    ELSE LET tok == text.tok IN
         IF tok.alg = Absent \/ tok.alg \notin algorithms
         THEN Decoded("InvalidTokenError", NoData)
         ELSE IF tok.alg \notin RsaAlgorithms THEN Decoded("Exception", NoData)
         ELSE IF ~SignatureVerifies(tok, public_key)
         THEN Decoded("InvalidTokenError", NoData)
         ELSE IF tok.payload.kind # "dict" THEN Decoded("InvalidTokenError", NoData)
         ELSE Decoded("ok", tok.payload)

-----------------------------------------------------------------------------
(* Key resolution: CatalogVerifier._get_public_key *)

\* what the catalog's host serves at /.well-known/did.json and /.well-known/jwks.json:
\* an HTTP exchange whose body is the JSON text of a document, or no JSON text
DidDocument(methods) == [fmt |-> "json", verificationMethod |-> methods]
JwksDocument(keys) == [fmt |-> "json", keys |-> keys]
MalformedDid == [fmt |-> "garbage", verificationMethod |-> <<>>]
MalformedJwks == [fmt |-> "garbage", keys |-> <<>>]
Method(id, jwk) == [id |-> id, publicKeyJwk |-> jwk]
JwksKey(kid, jwk) == [kid |-> kid, jwk |-> jwk]

\* CatalogVerifier._extract_public_key_from_did: the first method that matches and has
\* a publicKeyJwk decides; SecurityError when there is none
RECURSIVE extract_from(_, _, _)
extract_from(methods, i, key_id) ==
    IF i > Len(methods) THEN Raise
    ELSE IF (~Truthy(key_id) \/ EndsWith(methods[i].id, key_id))
            /\ methods[i].publicKeyJwk.kty # Absent
         THEN from_jwk(methods[i].publicKeyJwk)
         ELSE extract_from(methods, i + 1, key_id)

extract_public_key_from_did(did_document, key_id) ==
    extract_from(did_document.verificationMethod, 1, key_id)

\* CatalogVerifier._get_key_from_jwks: the first key that matches decides; every
\* failure is raised as SecurityError
RECURSIVE jwks_from(_, _, _)
jwks_from(keys, i, key_id) ==
    IF i > Len(keys) THEN Raise
    ELSE IF ~Truthy(key_id) \/ keys[i].kid = key_id
         THEN from_jwk(keys[i].jwk)
         ELSE jwks_from(keys, i + 1, key_id)

get_key_from_jwks(jwks_resp, key_id) ==
    IF jwks_resp.net = "error" THEN Raise
    ELSE IF raises_for_status(jwks_resp) THEN Raise
    ELSE IF jwks_resp.body.fmt # "json" THEN Raise
    ELSE jwks_from(jwks_resp.body.keys, 1, key_id)

\* The outcome of a key resolution: the key or SecurityError, and the strategies it
\* attempted, in the order it attempted them.
Resolved(res, attempts) == [kind |-> res.kind, key |-> res.key, attempts |-> attempts]

\* CatalogVerifier._get_public_key(catalog_url, key_id) with the instance's
\* trusted_keys: did.json is fetched first; only a status other than 200 leads on to
\* the trust store and then to JWKS; every exception is raised as SecurityError.
get_public_key_jwks_first(key_id, trusted_keys, did_resp, jwks_resp) ==
    IF did_resp.net = "error" THEN Resolved(Raise, <<"did">>)
    ELSE IF did_resp.status = 200
    THEN IF did_resp.body.fmt # "json" THEN Resolved(Raise, <<"did">>)
         ELSE Resolved(extract_public_key_from_did(did_resp.body, key_id), <<"did">>)
    ELSE IF get_key_from_jwks(jwks_resp, key_id).kind = "key" \/ ~Truthy(key_id)
            \/ key_id \notin DOMAIN trusted_keys
    THEN Resolved(get_key_from_jwks(jwks_resp, key_id), <<"did", "jwks">>)
    ELSE Resolved(load_public_key_from_string(trusted_keys[key_id]), <<"did", "jwks", "trust">>)

get_public_key(key_id, trusted_keys, did_resp, jwks_resp) ==
    IF did_resp.net = "error" THEN Resolved(Raise, <<"did">>)
    ELSE IF did_resp.status = 200
    THEN IF did_resp.body.fmt # "json" THEN Resolved(Raise, <<"did">>)
         ELSE Resolved(extract_public_key_from_did(did_resp.body, key_id), <<"did">>)
    ELSE IF Truthy(key_id) /\ key_id \in DOMAIN trusted_keys
    THEN Resolved(load_public_key_from_string(trusted_keys[key_id]), <<"did", "trust">>)
    ELSE Resolved(get_key_from_jwks(jwks_resp, key_id), <<"did", "jwks">>)

-----------------------------------------------------------------------------
(* Signature verification: CatalogVerifier.verify_catalog *)

\* The outcome of verify_catalog: the document it returns or the SecurityError it
\* raises, with the key resolution it made.
Verified(kind, doc, resolution) == [kind |-> kind, doc |-> doc, resolution |-> resolution]

NoResolution == [kind |-> Absent, key |-> Absent, attempts |-> <<>>]

\* jwt.get_unverified_header(text): the header, or an exception for what is no JWS
\* header.get('alg', 'RS256')
HeaderAlgorithm(tok) == IF tok.alg = Absent THEN "RS256" ELSE tok.alg

verify_catalog_unchecked(signed_catalog, trusted_keys, did_resp, jwks_resp) ==
    IF signed_catalog.fmt # "jws" THEN Verified("SecurityError", NoData, NoResolution)
    ELSE LET tok == signed_catalog.tok
             resolution == get_public_key(tok.kid, trusted_keys, did_resp, jwks_resp)
         IN  Verified("ok", tok.payload, resolution)

verify_catalog(signed_catalog, trusted_keys, did_resp, jwks_resp) ==
    IF signed_catalog.fmt # "jws" THEN Verified("SecurityError", NoData, NoResolution)
    ELSE LET tok == signed_catalog.tok
             algorithm == HeaderAlgorithm(tok)
             resolution == get_public_key(tok.kid, trusted_keys, did_resp, jwks_resp)
             decoded == jwt_decode(signed_catalog, resolution.key, {algorithm})
         IN  IF resolution.kind # "key" THEN Verified("SecurityError", NoData, resolution)
             ELSE IF decoded.kind # "ok" THEN Verified("SecurityError", NoData, resolution)
             ELSE Verified("ok", decoded.doc, resolution)

-----------------------------------------------------------------------------
(* Signing: CatalogSigner *)

\* CatalogSigner._compute_placeholder_hash(url): the digest of the URL string
compute_placeholder_hash(spec_url) == compute_sha256(spec_url)

\* the loop body of _add_content_hashes for one tool record
add_hash_never(tool) == tool

add_hash_always(tool) ==
    IF Truthy(tool.spec_url)
    THEN [tool EXCEPT !.spec_hash = compute_placeholder_hash(tool.spec_url)]
    ELSE tool

add_hash(tool) ==
    IF Truthy(tool.spec_url) /\ tool.spec_hash = Absent
    THEN [tool EXCEPT !.spec_hash = compute_placeholder_hash(tool.spec_url)]
    ELSE tool

\* CatalogSigner._add_content_hashes(catalog): the document that is signed
add_content_hashes(catalog) ==
    [catalog EXCEPT !.tools = [i \in 1..Len(catalog.tools) |-> add_hash(catalog.tools[i])]]

\* catalog.copy() is a shallow copy: catalog_copy is a new dict, but its 'tools' is the
\* caller's own list of the caller's own tool dicts, and `tool['spec_hash'] = ...`
\* writes into them.  The document the caller holds when _add_content_hashes returns:
input_after_add_content_hashes(catalog) ==
    [catalog EXCEPT !.tools = add_content_hashes(catalog).tools]

\* the records sign_catalog logs when it returns
sign_catalog_log(catalog) == <<"Catalog signed successfully">>

\* CatalogSigner.sign_catalog(catalog) of a signer made with (private_key, key_id)
sign_catalog_without_kid(catalog, private_key, key_id) ==
    jwt_encode(add_content_hashes(catalog), private_key, "RS256", Absent)

sign_catalog(catalog, private_key, key_id) ==
    jwt_encode(add_content_hashes(catalog), private_key, "RS256",
               IF Truthy(key_id) THEN key_id ELSE Absent)

-----------------------------------------------------------------------------
(* The MCP client: MCPClient of mcp_client.py *)

\* What an operation of MCPClient gives its caller: the value it returns, or the
\* error it raises with its message.
CallOutcome(outcome, error, message, value) ==
    [outcome |-> outcome, error |-> error, message |-> message, value |-> value]

\* a POST that ran into the session's timeout: asyncio.TimeoutError, which is no
\* aiohttp.ClientError and whose text is empty
NetTimeout(no_body) == [net |-> "timeout", status |-> 0, body |-> no_body]

\* the 'error' member of a JSON-RPC answer: absent, or an object with code and message
NoError == [present |-> FALSE, code |-> Absent, message |-> Absent]
ErrorObject(code, message) == [present |-> TRUE, code |-> code, message |-> message]

\* the body of an answer: a JSON object with the members id, error and result
\* (Absent: no such member), or a text that is no JSON
McpAnswer(fmt, id, error, result) == [fmt |-> fmt, id |-> id, error |-> error, result |-> result]

NoAnswer == McpAnswer("garbage", Absent, NoError, Absent)

\* f"MCP Error {error.get('code', 'unknown')}: {error.get('message', 'Unknown error')}"
mcp_error_message(error) ==
    "MCP Error " \o (IF error.code = Absent THEN "unknown" ELSE error.code)
        \o ": " \o (IF error.message = Absent THEN "Unknown error" ELSE error.message)

\* The try block that call_tool, list_tools and get_tool_schema share, up to the
\* return statement: the POST, raise_for_status, response.json() and the test for
\* 'error'.  aiohttp.ClientError becomes MCPError('Network error: ...'); every other
\* exception, the MCPError raised for 'error' included, becomes
\* MCPError('Unexpected error: ...').  value is what `result.get("result", {})` gives.
envelope_result_unchecked(resp) ==
    IF resp.net = "error"
    THEN CallOutcome("raise", "MCPError", "Network error: Connection failed", Absent)
    ELSE IF resp.net = "timeout"
    THEN CallOutcome("raise", "MCPError", "Unexpected error: ", Absent)
    ELSE IF raises_for_status(resp)
    THEN CallOutcome("raise", "MCPError", "Network error: bad status", Absent)
    ELSE IF resp.body.fmt # "json"
    THEN CallOutcome("raise", "MCPError", "Unexpected error: Expecting value", Absent)
    ELSE CallOutcome("return", Absent, Absent,
                     IF resp.body.result = Absent THEN "{}" ELSE resp.body.result)

envelope_result(resp) ==
    IF resp.net = "error"
    THEN CallOutcome("raise", "MCPError", "Network error: Connection failed", Absent)
    ELSE IF resp.net = "timeout"
    THEN CallOutcome("raise", "MCPError", "Unexpected error: ", Absent)
    ELSE IF raises_for_status(resp)
    THEN CallOutcome("raise", "MCPError", "Network error: bad status", Absent)
    ELSE IF resp.body.fmt # "json"
    THEN CallOutcome("raise", "MCPError", "Unexpected error: Expecting value", Absent)
    ELSE IF resp.body.error.present
    THEN CallOutcome("raise", "MCPError",
                     "Unexpected error: " \o mcp_error_message(resp.body.error), Absent)
    ELSE CallOutcome("return", Absent, Absent,
                     IF resp.body.result = Absent THEN "{}" ELSE resp.body.result)

\* MCPClient.call_tool(tool, params) when the POST to <endpoint>/mcp gives resp
call_tool(resp) == envelope_result(resp)

\* MCPClient.list_tools(): result.get("result", {}).get("tools", [])
ResultWithTools == "{'tools': ['t']}"

list_tools(resp) ==
    LET e == envelope_result(resp) IN
    IF e.outcome = "raise" THEN e
    ELSE [e EXCEPT !.value = IF e.value = ResultWithTools THEN "['t']" ELSE "[]"]

\* MCPClient.get_tool_schema(tool_name)
get_tool_schema(resp) == envelope_result(resp)

\* the 'id' member of the request: f"tool_{tool.id}_{id(params)}" (id(params) is the
\* address of the dict object given as params), "list_tools", f"schema_{tool_name}"
request_id(op, name, params) ==
    CASE op = "call_tool" -> "tool_" \o name \o "_" \o params
      [] op = "list_tools" -> "list_tools"
      [] op = "get_tool_schema" -> "schema_" \o name

\* the invocations of one MCPClient that the model follows
MaxCalls == 2

\* no answer yet
NoResp == [net |-> "none", status |-> 0, body |-> NoAnswer]

NoOutcome == CallOutcome(Absent, Absent, Absent, Absent)

\* An invocation: pc is where it stands (idle: not made yet; sent: its POST is out
\* and it awaits the answer; completed: it returned; failed: it raised), requests
\* counts the POSTs it has sent.
Invocation(pc, op, request, requests, resp, out) ==
    [pc |-> pc, op |-> op, request |-> request, requests |-> requests, resp |-> resp,
     out |-> out]

IdleCall == Invocation("idle", Absent, Absent, 0, NoResp, NoOutcome)

\* the close() calls on one MCPClient that stand at their await at one time
MaxCloses == 1

\* An aiohttp.ClientSession the client has made: closed says whether close() has been
\* called on it, closes how often.
Session(closed, closes) == [closed |-> closed, closes |-> closes]

\* aiohttp.ClientSession(timeout=aiohttp.ClientTimeout(total=self.timeout))
NewSession == Session(FALSE, 0)

\* await session.close(): the session is closed from the call on
CloseSession(made, s) ==
    [made EXCEPT ![s] = [@ EXCEPT !.closed = TRUE, !.closes = @ + 1]]

\* a client just made: no session, no invocation, no close() call
McpIdle ==
    /\ session = 0
    /\ calls = [c \in 1..MaxCalls |-> IdleCall]
    /\ sessions = <<>>
    /\ closers = 0
    /\ scope = "owner"

-----------------------------------------------------------------------------
(* The inputs the functions of security.py are called with *)

SpecUrl == "https://h/openapi.json"

\* the key ids of JWS headers; did.json names a method by a DID URL ending in '#<kid>'
KeyIds == {Absent, "key1", "key2"}
MethodId(kid) == "did:web:h#" \o kid

\* a method named 'did:web:h#old-key1' is another key than key1, whose name ends alike
Methods ==
    {Method(MethodId("key1"), Jwk("K1")), Method(MethodId("key2"), Jwk("K2")),
     Method(MethodId("key1"), NoJwk), Method(MethodId("key2"), BadJwk),
     Method(MethodId("old-key1"), Jwk("K2"))}

JwksKeys == {JwksKey("key1", Jwk("K1")), JwksKey("key2", Jwk("K2")), JwksKey("key1", BadJwk)}

DidResps ==
    {NetError(MalformedDid), HttpResp(404, MalformedDid), HttpResp(200, MalformedDid),
     HttpResp(204, DidDocument(<<Method(MethodId("key1"), Jwk("K1"))>>))}
    \cup {HttpResp(200, DidDocument(ms)) : ms \in SeqsUpTo(Methods, MaxEntries)}

JwksResps ==
    {NetError(MalformedJwks), HttpResp(404, MalformedJwks), HttpResp(200, MalformedJwks)}
    \cup {HttpResp(200, JwksDocument(ks)) : ks \in SeqsUpTo(JwksKeys, MaxEntries)}

\* CatalogVerifier.trusted_keys: key id -> PEM string
NoTrustedKeys == [k \in {} |-> ""]
TrustStores ==
    {NoTrustedKeys, [k \in {"key1"} |-> Pem("K1")], [k \in {"key2"} |-> Pem("K2")],
     [k \in {"key1"} |-> "no PEM text"]}

\* a few answers of the host, for the calls that resolve a key on the way
SomeDidResps ==
    {NetError(MalformedDid), HttpResp(404, MalformedDid),
     HttpResp(200, DidDocument(<<Method(MethodId("key1"), Jwk("K1"))>>)),
     HttpResp(200, DidDocument(<<Method(MethodId("key2"), Jwk("K2"))>>))}

SomeJwksResps ==
    {HttpResp(404, MalformedJwks),
     HttpResp(200, JwksDocument(<<JwksKey("key1", Jwk("K1")), JwksKey("key2", Jwk("K2"))>>))}

SomeTrustStores == {NoTrustedKeys, [k \in {"key1"} |-> Pem("K1")]}

\* the tool records and documents given to the signer
SignToolSpecs ==
    {ToolSpec("a", u, h) : u \in {Absent, SpecUrl},
                           h \in {Absent, compute_sha256("openapi-A")}}

SignDocs ==
    {EmptyDict, Dict("1.0", FALSE, <<>>)}
    \cup {Dict("1.0", TRUE, ts) : ts \in SeqsUpTo(SignToolSpecs, MaxTools)}

\* the artifacts given to the verifier: every header, signed or forged over one of
\* two documents
TokenDocs ==
    {Dict("1.0", TRUE, <<>>),
     Dict("1.0", TRUE, <<ToolSpec("a", SpecUrl, compute_sha256("openapi-A"))>>)}

Tokens ==
    {Token(alg, kid, d, Signature(k, sa, kid, sd)) :
        alg \in {"RS256", "RS384", "HS256", "none", Absent},
        kid \in {Absent, "key1"}, d \in TokenDocs,
        k \in KeyPairs, sa \in {"RS256", "RS384"}, sd \in TokenDocs}

SignedTexts == {Garbage, JsonText(Dict("1.0", TRUE, <<>>))} \cup {JwsText(t) : t \in Tokens}

\* what a spec_url serves
SpecResps ==
    {NetError("")} \cup {HttpResp(st, c) : st \in Statuses, c \in Contents \cup {""}}

Digests == {compute_sha256(c) : c \in Contents \cup {""}} \cup {"any_hash"}

-----------------------------------------------------------------------------
(* The calls of security.py, one action per function.  A call is made when no call  *)
(* is in progress and its record is kept until the caller has taken the outcome.   *)

NoCall == [op |-> "none"]

GetPublicKeyCall ==
    /\ call = NoCall
    /\ \E key_id \in KeyIds, trusted_keys \in TrustStores,
          did_resp \in DidResps, jwks_resp \in JwksResps :
           /\ call' = [op |-> "get_public_key", key_id |-> key_id,
                       trusted_keys |-> trusted_keys, did |-> did_resp, jwks |-> jwks_resp,
                       res |-> get_public_key(key_id, trusted_keys, did_resp, jwks_resp)]
           /\ UNCHANGED <<catalog_vars, mcp_vars>>

VerifyCatalogCall ==
    /\ call = NoCall
    /\ \E text \in SignedTexts, trusted_keys \in SomeTrustStores,
          did_resp \in SomeDidResps, jwks_resp \in SomeJwksResps :
           /\ call' = [op |-> "verify_catalog", text |-> text,
                       trusted_keys |-> trusted_keys, did |-> did_resp, jwks |-> jwks_resp,
                       out |-> verify_catalog(text, trusted_keys, did_resp, jwks_resp)]
           /\ UNCHANGED <<catalog_vars, mcp_vars>>

\* sign_catalog by a signer made with (private_key, key_id), then verify_catalog of
\* the artifact it returned
SignThenVerifyCall ==
    /\ call = NoCall
    /\ \E catalog \in SignDocs, private_key \in KeyPairs, key_id \in {Absent, "key1"},
          trusted_keys \in SomeTrustStores, did_resp \in SomeDidResps,
          jwks_resp \in SomeJwksResps :
           LET token == sign_catalog(catalog, private_key, key_id) IN
           /\ call' = [op |-> "sign_then_verify", catalog |-> catalog,
                       private_key |-> private_key, key_id |-> key_id, token |-> token,
                       catalog_after |-> input_after_add_content_hashes(catalog),
                       log |-> sign_catalog_log(catalog),
                       out |-> verify_catalog(JwsText(token), trusted_keys, did_resp, jwks_resp)]
           /\ UNCHANGED <<catalog_vars, mcp_vars>>

VerifyContentIntegrityCall ==
    /\ call = NoCall
    /\ \E resp \in SpecResps, expected_hash \in Digests :
           /\ call' = [op |-> "verify_content_integrity", resp |-> resp,
                       expected_hash |-> expected_hash,
                       result |-> verify_content_integrity(resp, expected_hash)]
           /\ UNCHANGED <<catalog_vars, mcp_vars>>

\* compute_sha256(content)
ComputeSha256Call ==
    /\ call = NoCall
    /\ \E content \in Contents \cup {""} :
           /\ call' = [op |-> "compute_sha256", content |-> content,
                       digest |-> compute_sha256(content)]
           /\ UNCHANGED <<catalog_vars, mcp_vars>>

\* the caller takes the outcome of the call
CallReturns ==
    /\ call # NoCall
    /\ call' = NoCall
    /\ UNCHANGED <<catalog_vars, mcp_vars>>

CatalogIdle ==
    /\ url = "https://h/.well-known/api-catalog"
    /\ verify_signatures = TRUE
    /\ catalog_data = NoData
    /\ tools_cache = <<>>
    /\ accepted_via = "none"
    /\ checked = {}
    /\ fetched = FALSE
    /\ last = [op |-> "none"]

SecurityInit == CatalogIdle /\ McpIdle /\ call = NoCall

SecurityNext ==
    \/ GetPublicKeyCall
    \/ VerifyCatalogCall
    \/ SignThenVerifyCall
    \/ VerifyContentIntegrityCall
    \/ ComputeSha256Call
    \/ CallReturns

SecuritySpec == SecurityInit /\ [][SecurityNext]_vars

-----------------------------------------------------------------------------
(* The Catalog of discovery.py *)

\* Tool.__init__(spec, catalog): the fields read from the tool record
Tool(spec) == [id |-> spec.name, spec |-> spec]

\* what Catalog.fetch leaves behind: whether it returned or raised (and what), the
\* new _catalog_data, and the code path that produced it
Fetched(outcome, error, data, via) ==
    [outcome |-> outcome, error |-> error, data |-> data, via |-> via]

\* `self._catalog_data = json.loads(content)` followed by the logging line that calls
\* _catalog_data.get: a text that is no JSON raises before the assignment, a JSON
\* value that is no object (a list, null) after it
fetch_json(content, data, via) ==
    IF content.fmt # "json" THEN Fetched("raise", "JSONDecodeError", data, via)
    ELSE IF content.val.kind # "dict"
    THEN Fetched("raise", "AttributeError", content.val, "json.loads")
    ELSE Fetched("return", Absent, content.val, "json.loads")

\* Catalog.fetch() of a catalog (u, vs) holding (data, via), when session.get(u) gives
\* resp and the host answers the key resolution with did_resp and jwks_resp
fetch(u, vs, data, via, resp, did_resp, jwks_resp) ==
    IF resp.net = "error" \/ raises_for_status(resp)
    THEN Fetched("raise", "ClientError", data, via)
    ELSE IF EndsWith(u, ".json") THEN fetch_json(resp.body, data, via)
    ELSE IF vs
    THEN LET out == verify_catalog(resp.body, NoTrustedKeys, did_resp, jwks_resp) IN
         IF out.kind = "ok" THEN Fetched("return", Absent, out.doc, "verify_catalog")
         ELSE Fetched("raise", "SecurityError", data, via)
    ELSE fetch_json(resp.body, data, via)

\* the error record Catalog.verify logs for a record whose digest check failed
integrity_failure_log(spec_url) == "Content integrity check failed for " \o spec_url

\* the loop of Catalog.verify over the tool records: the position of the first record
\* with a spec reference whose check fails, 0 when there is none.  resps[i] is what
\* session.get(spec_url) gives for record i.
first_failure_in_first_record(tools, resps) ==
    IF Len(tools) >= 1 /\ HasSpecRef(tools[1])
       /\ ~verify_content_integrity(resps[1], tools[1].spec_hash)
    THEN 1 ELSE 0

first_failure(tools, resps) ==
    LET failing == {i \in 1..Len(tools) :
                       /\ HasSpecRef(tools[i])
                       /\ ~verify_content_integrity(resps[i], tools[i].spec_hash)}
    IN  IF failing = {} THEN 0 ELSE Min(failing)

\* what Catalog.verify gives its caller: whether it returned or raised, the value, the
\* error records it logged, and the position of the record whose check failed
VerifyOutcome(outcome, error, result, log, failed) ==
    [outcome |-> outcome, error |-> error, result |-> result, log |-> log,
     failed |-> failed]

\* the try block of Catalog.verify on the document data
verify_content(data, resps) ==
    IF data.kind # "dict"
    THEN VerifyOutcome("return", Absent, FALSE, <<"Catalog verification failed">>, 0)
    ELSE LET f == first_failure(GetTools(data), resps) IN
         IF f = 0 THEN VerifyOutcome("return", Absent, TRUE, <<>>, 0)
         ELSE VerifyOutcome("return", Absent, FALSE,
                            <<integrity_failure_log(GetTools(data)[f].spec_url)>>, f)

\* the spec references verify_content found good before it returned
passed_checks(data, resps) ==
    IF data.kind # "dict" THEN {}
    ELSE LET tools == GetTools(data)
             f == first_failure(tools, resps)
         IN  {<<tools[i].spec_url, tools[i].spec_hash>> :
                 i \in {j \in 1..Len(tools) : HasSpecRef(tools[j]) /\ (f = 0 \/ j < f)}}

-----------------------------------------------------------------------------
(* The inputs of the Catalog *)

CatalogUrls == {"https://h/catalog.json", "https://h/.well-known/api-catalog"}

\* the tool records of the catalogs served: one without a spec reference, one with
CatalogToolSpecs ==
    {ToolSpec("a", Absent, Absent), ToolSpec("b", SpecUrl, compute_sha256("openapi-A"))}

\* a document of a schema version other than '1.0'
OtherVersionDoc == Dict("2.0", TRUE, <<ToolSpec("a", Absent, Absent)>>)

CatalogDocs ==
    {EmptyDict, OtherVersionDoc}
    \cup {Dict("1.0", TRUE, ts) : ts \in SeqsUpTo(CatalogToolSpecs, MaxTools)}

\* a document whose one tool record carries a spec reference
RefDoc == Dict("1.0", TRUE, <<ToolSpec("b", SpecUrl, compute_sha256("openapi-A"))>>)

\* the artifacts served: every document signed by the publisher (K1), and RefDoc
\* signed by someone else (K2) and with a publisher's signature made over another
\* document
CatalogTokens ==
    {Token("RS256", "key1", d, Signature("K1", "RS256", "key1", d)) : d \in CatalogDocs}
    \cup {Token("RS256", "key1", RefDoc, Signature("K2", "RS256", "key1", RefDoc)),
          Token("RS256", "key1", RefDoc, Signature("K1", "RS256", "key1", EmptyDict))}

CatalogTexts ==
    {Garbage, JsonText(JsonList), JsonText(NoData)}
    \cup {JsonText(d) : d \in CatalogDocs}
    \cup {JwsText(t) : t \in CatalogTokens}

CatalogResps ==
    {NetError(Garbage), HttpResp(404, Garbage)}
    \cup {HttpResp(200, text) : text \in CatalogTexts}

\* the answers of the catalog's host to the key resolution: the publisher's key in
\* did.json, in jwks.json only, or nowhere
HostKeys ==
    {<<HttpResp(200, DidDocument(<<Method(MethodId("key1"), Jwk("K1"))>>)),
       HttpResp(404, MalformedJwks)>>,
     <<HttpResp(404, MalformedDid),
       HttpResp(200, JwksDocument(<<JwksKey("key1", Jwk("K1"))>>))>>,
     <<HttpResp(404, MalformedDid), HttpResp(404, MalformedJwks)>>}

\* The host is asked for did.json and jwks.json only by a fetch that reaches
\* _get_public_key: the catalog came back, it goes to verify_catalog, and it has a
\* JWS header.  Any other fetch leaves the host's key documents unread.
HostKeysAsked(u, vs, resp) ==
    IF /\ resp.net = "ok" /\ ~raises_for_status(resp)
       /\ ~EndsWith(u, ".json") /\ vs /\ resp.body.fmt = "jws"
    THEN HostKeys
    ELSE {<<HttpResp(404, MalformedDid), HttpResp(404, MalformedJwks)>>}

\* what a spec_url serves to a content-integrity check
CheckResps == {NetError(""), HttpResp(200, "openapi-A"), HttpResp(200, "openapi-B")}

-----------------------------------------------------------------------------
(* The operations of a Catalog, one action per method *)

\* await catalog.fetch()
Fetch ==
    \E resp \in CatalogResps : \E keys \in HostKeysAsked(url, verify_signatures, resp) :
        LET f == fetch(url, verify_signatures, catalog_data, accepted_via,
                       resp, keys[1], keys[2])
        IN  /\ catalog_data' = f.data
            /\ accepted_via' = f.via
            /\ fetched' = (fetched \/ f.outcome = "return")
            /\ last' = [op |-> "fetch", outcome |-> f.outcome, error |-> f.error]
            /\ UNCHANGED <<url, verify_signatures, tools_cache, checked, call, mcp_vars>>

\* await catalog.verify() with verification disabled: True, nothing is fetched.
\* resps[i] is what the spec_url of record i serves at that time.
VerifyDisabled ==
    /\ ~verify_signatures
    /\ \E resps \in [1..Len(GetTools(catalog_data)) -> CheckResps] :
          last' = [op |-> "verify", resps |-> resps,
                   out |-> VerifyOutcome("return", Absent, TRUE,
                                         <<"Signature verification disabled">>, 0)]
    /\ UNCHANGED <<url, verify_signatures, catalog_data, accepted_via, tools_cache,
                   checked, fetched, call, mcp_vars>>

\* await catalog.verify() on a catalog that holds a document
VerifyCached ==
    /\ verify_signatures
    /\ DataTruthy(catalog_data)
    /\ \E resps \in [1..Len(GetTools(catalog_data)) -> CheckResps] :
          /\ last' = [op |-> "verify", resps |-> resps,
                      out |-> verify_content(catalog_data, resps)]
          /\ checked' = checked \cup passed_checks(catalog_data, resps)
    /\ UNCHANGED <<url, verify_signatures, catalog_data, accepted_via, tools_cache,
                   fetched, call, mcp_vars>>

\* await catalog.verify() on a catalog that holds none: fetch() first, outside the try
VerifyFetching ==
    /\ verify_signatures
    /\ ~DataTruthy(catalog_data)
    /\ \E resp \in CatalogResps : \E keys \in HostKeysAsked(url, verify_signatures, resp) :
          LET f == fetch(url, verify_signatures, catalog_data, accepted_via,
                         resp, keys[1], keys[2])
          IN  /\ catalog_data' = f.data
              /\ accepted_via' = f.via
              /\ fetched' = (fetched \/ f.outcome = "return")
              /\ IF f.outcome = "raise"
                 THEN /\ last' = [op |-> "verify", resps |-> <<>>,
                                  out |-> VerifyOutcome("raise", f.error, FALSE, <<>>, 0)]
                      /\ checked' = checked
                 ELSE \E resps \in [1..Len(GetTools(f.data)) -> CheckResps] :
                      /\ last' = [op |-> "verify", resps |-> resps,
                                  out |-> verify_content(f.data, resps)]
                      /\ checked' = checked \cup passed_checks(f.data, resps)
    /\ UNCHANGED <<url, verify_signatures, tools_cache, call, mcp_vars>>

\* what find() with no capability and no filter does: the not-fetched error, the
\* AttributeError of .get on what is no dict, or the Tool list, built on first use
FindOutcome(outcome, error, returned, cache) ==
    [outcome |-> outcome, error |-> error, returned |-> returned, cache |-> cache]

find(data, cache) ==
    IF ~DataTruthy(data) THEN FindOutcome("raise", "RuntimeError", <<>>, cache)
    ELSE IF cache # <<>> THEN FindOutcome("return", Absent, cache, cache)
    ELSE IF data.kind # "dict" THEN FindOutcome("raise", "AttributeError", <<>>, cache)
    ELSE LET built == [i \in 1..Len(GetTools(data)) |-> Tool(GetTools(data)[i])]
         IN  FindOutcome("return", Absent, built, built)

\* the tool that comes last in the list with that id
last_with_id(tools, tool_id) ==
    LET hits == {i \in 1..Len(tools) : tools[i].id = tool_id} IN
    IF hits = {} THEN <<>> ELSE <<tools[CHOOSE i \in hits : \A j \in hits : j <= i]>>

\* the loop of get_tool over the tools find() returned
first_with_id(tools, tool_id) ==
    LET hits == {i \in 1..Len(tools) : tools[i].id = tool_id} IN
    IF hits = {} THEN <<>> ELSE <<tools[Min(hits)]>>

\* catalog.find() and the property catalog.tools
Find ==
    LET f == find(catalog_data, tools_cache) IN
    /\ tools_cache' = f.cache
    /\ \E op \in {"find", "tools"} :
          last' = [op |-> op, outcome |-> f.outcome, error |-> f.error,
                   returned |-> f.returned, requests |-> <<>>]
    /\ UNCHANGED <<url, verify_signatures, catalog_data, accepted_via, checked, fetched,
                   call, mcp_vars>>

\* a get_tool that fetches the catalog when none is held, as verify() does
GetToolFetchingFirst ==
    \E tool_id \in {"a", "b", "z"}, resp \in CatalogResps :
      \E keys \in HostKeysAsked(url, verify_signatures, resp) :
        LET held == DataTruthy(catalog_data)
            g == IF held THEN Fetched("return", Absent, catalog_data, accepted_via)
                 ELSE fetch(url, verify_signatures, catalog_data, accepted_via,
                            resp, keys[1], keys[2])
            f == find(g.data, tools_cache)
        IN  /\ catalog_data' = g.data
            /\ accepted_via' = g.via
            /\ fetched' = (fetched \/ (~held /\ g.outcome = "return"))
            /\ tools_cache' = f.cache
            /\ last' = [op |-> "get_tool", outcome |-> f.outcome, error |-> f.error,
                        returned |-> first_with_id(f.returned, tool_id),
                        requests |-> IF held THEN <<>> ELSE <<url>>]
            /\ UNCHANGED <<url, verify_signatures, checked, call, mcp_vars>>

\* catalog.get_tool(tool_id): returned holds the tool, or nothing for None
GetTool ==
    \E tool_id \in {"a", "b", "z"} :
        LET f == find(catalog_data, tools_cache) IN
        /\ tools_cache' = f.cache
        /\ last' = [op |-> "get_tool", outcome |-> f.outcome, error |-> f.error,
                    returned |-> first_with_id(f.returned, tool_id), requests |-> <<>>]
        /\ UNCHANGED <<url, verify_signatures, catalog_data, accepted_via, checked,
                       fetched, call, mcp_vars>>

\* Tool.server_url, read from the 'x-mcp-tool' block of the record: of the records
\* served, b names its server and a has no such block
server_url(tool) == IF tool.spec.name = "b" THEN "https://mcp.h" ELSE ""

\* urljoin(endpoint, "/mcp")
McpUrl(endpoint) == endpoint \o "/mcp"

\* Tool.call(**params): what the caller gets, the MCPClient objects made (each makes
\* its session on first use) and the requests sent
Called(out, clients, requests) == [out |-> out, clients |-> clients, requests |-> requests]

tool_call_unguarded(tool, resp) ==
    Called(call_tool(resp), 1, <<McpUrl(server_url(tool))>>)

tool_call(tool, resp) ==
    IF server_url(tool) = ""
    THEN Called(CallOutcome("raise", "ValueError",
                            "No server URL configured for tool " \o tool.id, Absent),
                0, <<>>)
    ELSE Called(call_tool(resp), 1, <<McpUrl(server_url(tool))>>)

\* what an MCP server answers to the call of a tool
McpResps ==
    {NetError(NoAnswer), HttpResp(500, NoAnswer), HttpResp(200, NoAnswer),
     HttpResp(200, McpAnswer("json", "1", ErrorObject("-32603", "Tool execution failed"),
                             Absent)),
     HttpResp(200, McpAnswer("json", "1", NoError, Absent)),
     HttpResp(200, McpAnswer("json", "1", NoError, "done"))}

\* await tool.call(...) on a Tool that find() has handed out
ToolCall ==
    /\ tools_cache # <<>>
    /\ \E i \in 1..Len(tools_cache), resp \in McpResps :
          LET c == tool_call(tools_cache[i], resp)
          IN  last' = [op |-> "call", server_url |-> server_url(tools_cache[i]),
                       outcome |-> c.out.outcome, error |-> c.out.error,
                       returned |-> <<>>, value |-> c.out.value,
                       clients |-> c.clients, requests |-> c.requests]
    /\ UNCHANGED <<url, verify_signatures, catalog_data, accepted_via, tools_cache,
                   checked, fetched, call, mcp_vars>>

\* find() without filters returns self._tools itself, not a copy: a caller that
\* holds the list find() just returned and calls pop() on it shortens _tools
CallerPopsReturnedList ==
    /\ last.op \in {"find", "tools"}
    /\ last.outcome = "return"
    /\ tools_cache # <<>>
    /\ tools_cache' = SubSeq(tools_cache, 1, Len(tools_cache) - 1)
    /\ last' = [op |-> "caller_pop", held |-> tools_cache]
    /\ UNCHANGED <<url, verify_signatures, catalog_data, accepted_via, checked, fetched,
                   call, mcp_vars>>

-----------------------------------------------------------------------------
(* The timeouts of the sessions the requests are sent on *)

\* aiohttp.ClientTimeout(total=total), given to ClientSession(timeout=...)
ClientTimeout(total) == [configured |-> TRUE, total |-> total]

\* aiohttp.ClientSession() made with no timeout argument: the code configures none
\* (the library then applies its own default of 300 seconds in total)
NoTimeout == [configured |-> FALSE, total |-> 300]

\* the timeout argument of the session made at a place of the code that sends
\* requests: MCPClient._get_session (MCPClient(endpoint) has timeout = 30), or one of
\* Catalog.fetch, Catalog._verify_content_integrity, CatalogVerifier._get_public_key,
\* CatalogVerifier._get_key_from_jwks and verify_content_integrity
session_timeout(site) ==
    IF site = "MCPClient._get_session" THEN ClientTimeout(30) ELSE NoTimeout

\* the places whose requests the last operation has sent: fetch() always sends its
\* GET, verify() a GET for every record with a spec reference it comes to,
\* Tool.call() a POST unless it raised ValueError, _get_public_key its GET of
\* did.json, verify_content_integrity its GET
IssuedAt ==
    (IF last.op = "fetch" THEN {"Catalog.fetch"}
     ELSE IF last.op = "verify"
     THEN (IF /\ verify_signatures
              /\ \E i \in DOMAIN last.resps : HasSpecRef(GetTools(catalog_data)[i])
           THEN {"Catalog._verify_content_integrity"} ELSE {})
     ELSE IF last.op = "call"
     THEN (IF last.requests # <<>> THEN {"MCPClient._get_session"} ELSE {})
     ELSE {})
    \cup
    (IF call.op \in {"get_public_key", "verify_catalog"}
     THEN {"CatalogVerifier._get_public_key"}
     ELSE IF call.op = "verify_content_integrity" THEN {"verify_content_integrity"}
     ELSE {})

-----------------------------------------------------------------------------
(* Lookup with criteria: Catalog.find(capability, **filters) and get_tool *)

\* the longest list of keyword filters given to find()
MaxFilters == 2

\* a tool record with the members that Tool.__init__ reads for find(): 'description'
\* and, in its 'x-mcp-tool' block, the lists 'capabilities' and 'examples'
McpToolSpec(name, description, capabilities, examples) ==
    [name |-> name, description |-> description, capabilities |-> capabilities,
     examples |-> examples, spec_url |-> Absent, spec_hash |-> Absent]

\* Tool.description, Tool.capabilities and Tool.examples
description(tool) == tool.spec.description
capabilities(tool) == tool.spec.capabilities
examples(tool) == tool.spec.examples

\* str.lower(), for the letters that occur in upper case in the model
lower_char(c) ==
    CASE c = "A" -> "a" [] c = "E" -> "e" [] c = "S" -> "s" [] c = "T" -> "t"
      [] OTHER -> c

lower_unchanged(s) == s

RECURSIVE lower_from(_, _)
lower_from(s, i) ==
    IF i > Len(s) THEN "" ELSE lower_char(SubSeq(s, i, i)) \o lower_from(s, i + 1)

lower(s) == lower_from(s, 1)

\* `needle in text` of two strings
Contains(needle, text) ==
    \E i \in 1..(Len(text) - Len(needle) + 1) : SubSeq(text, i, i + Len(needle) - 1) = needle

\* `x in list`
InList(x, list) == \E i \in 1..Len(list) : list[i] = x

\* a keyword argument of find(): for 'description_contains' the value is text, for
\* 'has_examples' it is flag
Filter(key, text, flag) == [key |-> key, text |-> text, flag |-> flag]

\* one round of the loop over filters.items()
apply_filter(results, f) ==
    LET DescriptionContains(tool) == Contains(lower(f.text), lower(description(tool)))
        HasExamples(tool) == (examples(tool) # <<>>) = f.flag
    IN  IF f.key = "description_contains" THEN SelectSeq(results, DescriptionContains)
        ELSE IF f.key = "has_examples" THEN SelectSeq(results, HasExamples)
        ELSE results

RECURSIVE apply_filters(_, _, _)
apply_filters(results, filters, i) ==
    IF i > Len(filters) THEN results
    ELSE apply_filters(apply_filter(results, filters[i]), filters, i + 1)

\* Catalog.find(capability, **filters): find() above, then the capability test and
\* the filters in the order they were given
find_filtered(data, cache, capability, filters) ==
    LET f == find(data, cache)
        HasCapability(tool) == InList(capability, capabilities(tool))
        by_capability == IF Truthy(capability) THEN SelectSeq(f.returned, HasCapability)
                         ELSE f.returned
    IN  IF f.outcome = "raise" THEN f
        ELSE [f EXCEPT !.returned = apply_filters(by_capability, filters, 1)]

\* Catalog.get_tool(tool_id) on what find() returns: the tool, or nothing for None
get_tool(data, cache, tool_id) == first_with_id(find(data, cache).returned, tool_id)

\* the tool records of the catalogs looked up in: two records share the id a
LookupToolSpecs ==
    {McpToolSpec("a", "A test tool", <<"x">>, <<"example">>),
     McpToolSpec("b", "Another TEST", <<"y">>, <<>>),
     McpToolSpec("a", "plain", <<"x", "y">>, <<>>)}

LookupDocs == {Dict("1.0", TRUE, ts) : ts \in SeqsUpTo(LookupToolSpecs, MaxTools)}

Capabilities == {Absent, "x", "z"}

Filters ==
    {Filter("description_contains", "test", FALSE),
     Filter("description_contains", "TeSt t", FALSE),
     Filter("has_examples", "", TRUE), Filter("has_examples", "", FALSE),
     Filter("sort_by", "name", FALSE)}

\* keyword arguments: no key twice
FilterLists ==
    {fs \in SeqsUpTo(Filters, MaxFilters) :
        \A i, j \in 1..Len(fs) : i # j => fs[i].key # fs[j].key}

\* catalog.find(capability, **filters) on a Catalog that holds data
FindCall ==
    /\ call = NoCall
    /\ \E data \in LookupDocs, capability \in Capabilities, filters \in FilterLists :
           /\ call' = [op |-> "find", data |-> data, capability |-> capability,
                       filters |-> filters,
                       out |-> find_filtered(data, <<>>, capability, filters)]
           /\ UNCHANGED <<catalog_vars, mcp_vars>>

\* catalog.get_tool(tool_id) on a Catalog that holds data
GetToolCall ==
    /\ call = NoCall
    /\ \E data \in LookupDocs, tool_id \in {"a", "b", "z"} :
           /\ call' = [op |-> "get_tool", data |-> data, tool_id |-> tool_id,
                       returned |-> get_tool(data, <<>>, tool_id)]
           /\ UNCHANGED <<catalog_vars, mcp_vars>>

LookupInit == CatalogIdle /\ McpIdle /\ call = NoCall

LookupNext ==
    \/ FindCall
    \/ GetToolCall
    \/ CallReturns

LookupSpec == LookupInit /\ [][LookupNext]_vars

-----------------------------------------------------------------------------
(* A Catalog in use *)

Init ==
    /\ url \in CatalogUrls
    /\ verify_signatures \in BOOLEAN
    /\ catalog_data = NoData
    /\ tools_cache = <<>>
    /\ accepted_via = "none"
    /\ checked = {}
    /\ fetched = FALSE
    /\ last = [op |-> "none"]
    /\ call = NoCall
    /\ McpIdle

Next ==
    \/ Fetch
    \/ VerifyDisabled
    \/ VerifyCached
    \/ VerifyFetching
    \/ Find
    \/ GetTool
    \/ ToolCall
    \/ CallerPopsReturnedList

Spec == Init /\ [][Next]_vars

-----------------------------------------------------------------------------
(* An MCPClient in use: invocations that overlap on one client *)

\* the tool names and the params dict objects (by address) of the invocations
McpToolNames == {"b"}
ParamObjects == {"0x1", "0x2"}

\* what the server may answer to the request with the id `request`
Answers(request) ==
    {NetError(NoAnswer), NetTimeout(NoAnswer), HttpResp(500, NoAnswer), HttpResp(200, NoAnswer)}
    \cup {HttpResp(200, McpAnswer("json", id, error, result)) :
             id \in {request, "other"},
             error \in {NoError, ErrorObject("-32603", "Tool execution failed")},
             result \in {Absent, ResultWithTools}}

\* a _get_session that makes a new session for every call
get_session_always_new(held, made) == Len(made) + 1

\* MCPClient._get_session(): the session held, or a new one when none is held; made
\* are the sessions made so far, and the new one is the next
get_session(held, made) == IF held = 0 THEN Len(made) + 1 ELSE held

\* invocation c may be made: it is the next one; the client Tool.call makes serves
\* one invocation
Next_call(c) ==
    /\ calls[c].pc = "idle"
    /\ IF c = 1 THEN TRUE ELSE calls[c - 1].pc # "idle" /\ scope # "tool_call"

\* session.post(...) on a session that is closed: aiohttp raises
\* RuntimeError("Session is closed") before anything is sent
SessionIsClosed == CallOutcome("raise", "MCPError", "Unexpected error: Session is closed", Absent)

\* The first part of an operation, up to the await of the POST: the session is got,
\* the request is built and sent.
Send(c, op, name, params) ==
    LET s == get_session(session, sessions)
        made == IF s > Len(sessions)
                THEN Append(sessions, NewSession)
                ELSE sessions
    IN  /\ session' = s
        /\ sessions' = made
        /\ calls' = [calls EXCEPT ![c] =
                        IF made[s].closed
                        THEN Invocation("failed", op, request_id(op, name, params), 0,
                                        NoResp, SessionIsClosed)
                        ELSE Invocation("sent", op, request_id(op, name, params), 1,
                                        NoResp, NoOutcome)]
        /\ UNCHANGED <<catalog_vars, call, closers, scope>>

\* await client.call_tool(tool, params)
CallTool(c) ==
    /\ Next_call(c)
    /\ \E name \in McpToolNames, params \in ParamObjects : Send(c, "call_tool", name, params)

\* await client.list_tools()
ListTools(c) ==
    /\ Next_call(c)
    /\ Send(c, "list_tools", Absent, Absent)

\* await client.get_tool_schema(tool_name)
GetToolSchema(c) ==
    /\ Next_call(c)
    /\ \E name \in McpToolNames : Send(c, "get_tool_schema", name, Absent)

\* what the operation op makes of the answer resp
operation_result(op, resp) ==
    CASE op = "call_tool" -> call_tool(resp)
      [] op = "list_tools" -> list_tools(resp)
      [] op = "get_tool_schema" -> get_tool_schema(resp)

\* an operation that sends its request once more when the first answer made it fail
AnswerRetrying(c) ==
    /\ calls[c].pc = "sent"
    /\ \E resp \in Answers(calls[c].request) :
          LET out == operation_result(calls[c].op, resp) IN
          calls' = [calls EXCEPT ![c] =
                       IF out.outcome = "raise" /\ calls[c].requests = 1
                       THEN [@ EXCEPT !.requests = 2]
                       ELSE [@ EXCEPT !.pc = IF out.outcome = "return" THEN "completed"
                                             ELSE "failed",
                                      !.resp = resp, !.out = out]]
    /\ UNCHANGED <<catalog_vars, call, session, session_vars>>

\* The second part of an operation: the answer to the POST arrives (or the POST
\* raises), and the operation returns or raises.
AnswerAmong(c, answers) ==
    /\ \E resp \in answers :
          LET out == operation_result(calls[c].op, resp) IN
          calls' = [calls EXCEPT ![c] =
                       [@ EXCEPT !.pc = IF out.outcome = "return" THEN "completed"
                                        ELSE "failed",
                                 !.resp = resp, !.out = out]]
    /\ UNCHANGED <<catalog_vars, call, session, session_vars>>

Answer(c) ==
    /\ calls[c].pc = "sent"
    /\ AnswerAmong(c, Answers(calls[c].request))

McpInit == CatalogIdle /\ McpIdle /\ call = NoCall

McpNext ==
    \E c \in 1..MaxCalls :
        \/ CallTool(c)
        \/ ListTools(c)
        \/ GetToolSchema(c)
        \/ Answer(c)

McpSpec == McpInit /\ [][McpNext]_vars

-----------------------------------------------------------------------------
(* The sessions of an MCPClient: close(), the with block, and Tool.call *)

\* await client.close() when `await self._session.close()` does not give way to
\* another task (or no session is held): the whole method in one step.  The client
\* Tool.call makes is reached by nobody else.
Close ==
    /\ scope # "tool_call"
    /\ session # 0 \/ closers # 0
    /\ IF session = 0
       THEN UNCHANGED <<session, sessions>>
       ELSE /\ sessions' = CloseSession(sessions, session)
            /\ session' = 0
    /\ UNCHANGED <<catalog_vars, call, calls, closers, scope>>

\* await client.close() up to the point where `await self._session.close()` gives
\* way to other tasks: the session is closed, self._session still names it
CloseBegin ==
    /\ scope # "tool_call"
    /\ closers < MaxCloses
    /\ session # 0
    /\ sessions' = CloseSession(sessions, session)
    /\ closers' = closers + 1
    /\ UNCHANGED <<catalog_vars, call, session, calls, scope>>

\* a close() resumes after `await self._session.close()`: self._session = None
CloseEnd ==
    /\ closers > 0
    /\ session' = 0
    /\ closers' = closers - 1
    /\ UNCHANGED <<catalog_vars, call, sessions, calls, scope>>

\* `async with client:` is entered: __aenter__ makes a session and assigns it
AEnter ==
    /\ scope = "owner"
    /\ scope' = "entered"
    /\ sessions' = Append(sessions, NewSession)
    /\ session' = Len(sessions) + 1
    /\ UNCHANGED <<catalog_vars, call, calls, closers>>

\* the with block is left, by its end or by an exception: __aexit__ closes the
\* session held and leaves self._session as it is
AExit ==
    /\ scope = "entered"
    /\ scope' = "exited"
    /\ sessions' = IF session = 0 THEN sessions ELSE CloseSession(sessions, session)
    /\ UNCHANGED <<catalog_vars, call, session, calls, closers>>

\* Tool.call(): `client = MCPClient(self.server_url)`, a client of its own that it
\* uses for one call_tool and then drops
ToolCallMakesClient ==
    /\ scope = "owner"
    /\ calls[1].pc = "idle"
    /\ session = 0
    /\ closers = 0
    /\ scope' = "tool_call"
    /\ UNCHANGED <<catalog_vars, call, session, calls, sessions, closers>>

\* the answers followed where the sessions are what matters: the connection fails,
\* or the server answers with a result
SessionAnswers(request) ==
    {NetError(NoAnswer), HttpResp(200, McpAnswer("json", request, NoError, ResultWithTools))}

\* the answer to the POST of invocation c arrives, or the POST raises
SessionAnswer(c) ==
    /\ calls[c].pc = "sent"
    /\ AnswerAmong(c, SessionAnswers(calls[c].request))

SessionInit == CatalogIdle /\ McpIdle /\ call = NoCall

\* call_tool, list_tools and get_tool_schema get their session by the same first
\* statement; the sessions are followed through call_tool, the operation Tool.call
\* uses
SessionNext ==
    \/ \E c \in 1..MaxCalls :
          \/ CallTool(c)
          \/ SessionAnswer(c)
    \/ Close
    \/ CloseBegin
    \/ CloseEnd
    \/ AEnter
    \/ AExit
    \/ ToolCallMakesClient

SessionSpec == SessionInit /\ [][SessionNext]_vars

-----------------------------------------------------------------------------
(* Claims about the Catalog, checked under Spec *)

\* the bytes resp carries were fetched without error and have the digest expected
DigestMatches(resp, expected_hash) ==
    /\ resp.net = "ok"
    /\ resp.status < 400
    /\ compute_sha256(resp.body) = expected_hash

\* the last operation was a verify() of the document now held, and the fresh bytes of
\* record i did not have the recorded digest
DigestMismatchAt(i) ==
    /\ last.op = "verify"
    /\ catalog_data.kind = "dict"
    /\ i \in 1..Len(GetTools(catalog_data))
    /\ i \in DOMAIN last.resps
    /\ HasSpecRef(GetTools(catalog_data)[i])
    /\ ~DigestMatches(last.resps[i], GetTools(catalog_data)[i].spec_hash)

\* C1: with signature verification enabled, find(), get_tool() and tools hand out a
\* tool whose record carries a spec reference only if the digest of that reference has
\* been checked successfully against freshly fetched bytes.
C1_SpecRefToolExposedOnlyIfDigestChecked ==
    verify_signatures /\ last.op \in {"find", "tools", "get_tool"} =>
        \A i \in 1..Len(last.returned) :
            HasSpecRef(last.returned[i].spec) =>
                <<last.returned[i].spec.spec_url, last.returned[i].spec.spec_hash>>
                    \in checked

\* C2: with verify_signatures=True the cache holds only what verify_catalog returned,
\* whatever the catalog URL is.
C2_CacheOnlyHoldsSignatureVerifiedContent ==
    verify_signatures /\ catalog_data # NoData => accepted_via = "verify_catalog"

\* C6: with verification enabled, verify() of a catalog document returns True if and
\* only if every tool record with a spec reference has the recorded digest on the
\* bytes fetched for it during this verification, a fetch error counting as a failed
\* check; a verify() that raises does not succeed.
C6_VerifyTrueIffEveryDigestMatches ==
    verify_signatures /\ last.op = "verify" =>
        /\ last.out.outcome = "raise" => last.out.result = FALSE
        /\ last.out.outcome = "return" /\ catalog_data.kind = "dict" =>
              (last.out.result = TRUE <=>
                  \A i \in 1..Len(GetTools(catalog_data)) :
                      HasSpecRef(GetTools(catalog_data)[i]) =>
                          DigestMatches(last.resps[i], GetTools(catalog_data)[i].spec_hash))

\* verify() returned True for a document with two records that carry a spec reference
C6_Witness ==
    /\ verify_signatures /\ last.op = "verify"
    /\ last.out.outcome = "return" /\ last.out.result = TRUE
    /\ Len(GetTools(catalog_data)) = 2
    /\ \A i \in 1..2 : HasSpecRef(GetTools(catalog_data)[i])

\* C7: when the digest check of a tool record fails, verify() fails with an
\* IntegrityError that names the offending record.
C7_DigestFailureRaisesIntegrityError ==
    verify_signatures /\ (\E i \in 1..MaxTools + 1 : DigestMismatchAt(i)) =>
        /\ last.out.outcome = "raise"
        /\ last.out.error = "IntegrityError"

\* C8: with verify_signatures=False, verify() reports failure when the fresh bytes of
\* a record with a spec reference do not have the recorded digest.
C8_DisabledVerificationStillChecksDigests ==
    ~verify_signatures /\ (\E i \in 1..MaxTools + 1 : DigestMismatchAt(i)) =>
        last.out.result = FALSE

-----------------------------------------------------------------------------
(* Claims about security.py, checked under SecuritySpec *)

\* C3: verify_catalog returns a document only if the artifact's signature verifies
\* under the key that key resolution returned for the kid of the unverified header,
\* and the document is the signed payload; on a signature mismatch or a failed key
\* resolution it raises SecurityError and returns no document.
C3_DocumentOnlyIfSignatureVerified ==
    call.op = "verify_catalog" =>
        LET out == call.out
            tok == call.text.tok
        IN  /\ out.kind \in {"ok", "SecurityError"}
            /\ out.kind = "ok" =>
                /\ call.text.fmt = "jws"
                /\ out.resolution =
                       get_public_key(tok.kid, call.trusted_keys, call.did, call.jwks)
                /\ out.resolution.kind = "key"
                /\ out.resolution.key = PublicKey(tok.sig.key)
                /\ tok.sig.payload = tok.payload
                /\ tok.sig.alg = tok.alg /\ tok.sig.kid = tok.kid
                /\ out.doc = tok.payload
            /\ out.kind = "SecurityError" => out.doc = NoData
            /\ call.text.fmt = "jws" /\ out.resolution.kind # "key"
                   => out.kind = "SecurityError"
            /\ call.text.fmt = "jws" /\ out.resolution.kind = "key"
                   /\ ~SignatureVerifies(tok, out.resolution.key)
                   => out.kind = "SecurityError"

\* a validly signed artifact was accepted with a key found through JWKS
C3_Witness ==
    /\ call.op = "verify_catalog"
    /\ call.out.kind = "ok"
    /\ call.out.resolution.attempts = <<"did", "jwks">>

\* what each strategy of the chain gives on its own for the inputs of the call
\* did.json: the first method that is named by the key id (any method when there is
\* none) and carries a publicKeyJwk holds an RSA key
DidYieldsKey(c) ==
    /\ c.did.net = "ok" /\ c.did.status = 200 /\ c.did.body.fmt = "json"
    /\ LET ms == c.did.body.verificationMethod
           hits == {i \in 1..Len(ms) :
                       /\ c.key_id = Absent \/ EndsWith(ms[i].id, c.key_id)
                       /\ ms[i].publicKeyJwk # NoJwk}
       IN  hits # {} /\ ms[Min(hits)].publicKeyJwk.kty = "RSA"

\* the trust store: the key id is in the mapping, with a PEM text
TrustStoreYieldsKey(c) ==
    /\ c.key_id # Absent /\ c.key_id \in DOMAIN c.trusted_keys
    /\ \E k \in KeyPairs : c.trusted_keys[c.key_id] = Pem(k)

\* jwks.json: the first key with the key id (the first key when there is none) is an
\* RSA key
JwksYieldsKey(c) ==
    /\ c.jwks.net = "ok" /\ c.jwks.status < 400 /\ c.jwks.body.fmt = "json"
    /\ LET ks == c.jwks.body.keys
           hits == {i \in 1..Len(ks) : c.key_id = Absent \/ ks[i].kid = c.key_id}
       IN  hits # {} /\ ks[Min(hits)].jwk.kty = "RSA"

StrategyRank(s) == CASE s = "did" -> 1 [] s = "trust" -> 2 [] s = "jwks" -> 3

\* C4: key resolution attempts did.json, then the trust store (only for a key id that
\* is in the mapping), then JWKS; a later strategy is attempted only after no earlier
\* one could produce a key; the key returned is the key of the last strategy attempted,
\* the first to succeed; when all three fail it raises SecurityError; the key returned
\* is never None.
C4_StrategiesInOrder ==
    call.op = "get_public_key" =>
        LET r == call.res
            n == Len(r.attempts)
            yields(s) == CASE s = "did" -> DidYieldsKey(call)
                           [] s = "trust" -> TrustStoreYieldsKey(call)
                           [] s = "jwks" -> JwksYieldsKey(call)
        IN  /\ n >= 1 /\ r.attempts[1] = "did"
            /\ \A i, j \in 1..n :
                  i < j => StrategyRank(r.attempts[i]) < StrategyRank(r.attempts[j])
            /\ \A i \in 1..n : r.attempts[i] = "trust" =>
                  Truthy(call.key_id) /\ call.key_id \in DOMAIN call.trusted_keys
            /\ \A i \in 1..n : \A s \in {"did", "trust", "jwks"} :
                  StrategyRank(s) < StrategyRank(r.attempts[i]) => ~yields(s)
            /\ r.kind \in {"key", "raise"}
            /\ r.kind = "key" =>
                  /\ r.key # Absent
                  /\ \E k \in KeyPairs : r.key = PublicKey(k)
                  /\ yields(r.attempts[n])
            /\ (~DidYieldsKey(call) /\ ~TrustStoreYieldsKey(call) /\ ~JwksYieldsKey(call))
                  => r.kind = "raise"

\* did.json was not found, the key id is not in the trust store, and JWKS gave the key
C4_Witness ==
    /\ call.op = "get_public_key"
    /\ call.res.attempts = <<"did", "jwks">>
    /\ call.res.kind = "key"
    /\ call.key_id = "key2"
    /\ call.trusted_keys # NoTrustedKeys

\* C5: a failure of a strategy that is not the last one never ends the resolution:
\* when the resolution raises, the strategy that failed last is JWKS.
C5_OnlyFinalStrategyFailurePropagates ==
    call.op = "get_public_key" /\ call.res.kind = "raise" =>
        call.res.attempts[Len(call.res.attempts)] = "jwks"

\* C9 as claimed: True exactly for a fetch that succeeded with a 2xx status and whose
\* bytes have the expected digest.
C9_TrueExactlyFor2xxAndMatch ==
    call.op = "verify_content_integrity" =>
        /\ call.result \in BOOLEAN
        /\ call.result = TRUE <=>
              /\ call.resp.net = "ok"
              /\ call.resp.status \in 200..299
              /\ compute_sha256(call.resp.body) = call.expected_hash

\* C9: verify_content_integrity never raises; it returns True exactly when the fetch
\* raised no error, the status is below 400 (what raise_for_status accepts) and the
\* SHA-256 of the bytes equals expected_hash, and False otherwise.
C9_TrueExactlyForAcceptedStatusAndMatch ==
    call.op = "verify_content_integrity" =>
        /\ call.result \in BOOLEAN
        /\ call.result = TRUE <=>
              /\ call.resp.net = "ok"
              /\ call.resp.status < 400
              /\ compute_sha256(call.resp.body) = call.expected_hash

\* a 304 answer whose bytes match was accepted
C9_Witness ==
    /\ call.op = "verify_content_integrity"
    /\ call.resp.net = "ok" /\ call.resp.status = 304
    /\ call.result = TRUE

\* the verification of a round trip resolved the public key of the signer's key pair
MatchingKeyResolved ==
    /\ call.op = "sign_then_verify"
    /\ call.out.resolution.kind = "key"
    /\ call.out.resolution.key = PublicKey(call.private_key)

\* C10 as claimed: the round trip returns the document given to the signer.
C10_RoundTripReturnsInput ==
    MatchingKeyResolved => call.out.kind = "ok" /\ call.out.doc = call.catalog

\* the tool record the signer signs for the record t it was given
WithDigest(t) ==
    IF t.spec_url # Absent /\ t.spec_hash = Absent
    THEN ToolSpec(t.name, t.spec_url, compute_sha256(t.spec_url))
    ELSE t

\* C10: the round trip returns the document that was signed: the document given to
\* the signer with a spec_hash attached to every tool record that has a spec_url and
\* no spec_hash, and otherwise unchanged; it equals the input exactly when no record
\* needed a digest.
C10_RoundTripReturnsSignedDocument ==
    MatchingKeyResolved =>
        LET d == call.catalog
            r == call.out.doc
        IN  /\ call.out.kind = "ok"
            /\ r.kind = d.kind /\ r.version = d.version /\ r.has_tools = d.has_tools
            /\ Len(r.tools) = Len(d.tools)
            /\ \A i \in 1..Len(d.tools) : r.tools[i] = WithDigest(d.tools[i])
            /\ r = d <=>
                  \A i \in 1..Len(d.tools) :
                      ~(d.tools[i].spec_url # Absent /\ d.tools[i].spec_hash = Absent)

\* a document with a record that needed a digest and one that had its own went round
C10_Witness ==
    /\ MatchingKeyResolved
    /\ call.out.kind = "ok"
    /\ \E i, j \in 1..Len(call.catalog.tools) :
          /\ call.catalog.tools[i].spec_url # Absent
          /\ call.catalog.tools[i].spec_hash = Absent
          /\ call.catalog.tools[j].spec_hash # Absent

\* C11: sign_catalog leaves the caller's document as it was: after the call every tool
\* record of the input has the fields and values it had before the call.
C11_SignLeavesInputUnchanged ==
    call.op = "sign_then_verify" => call.catalog_after = call.catalog

\* record t has a spec_url and no spec_hash
NeedsDigest(t) == t.spec_url # Absent /\ t.spec_hash = Absent

\* C12: the payload sign_catalog signs is the input document in which every tool
\* record with a spec_url and no spec_hash has got a spec_hash, a record with a
\* spec_hash is as it was, and a record without a spec_url is as it was (it has got no
\* spec_hash); the signature is made over that payload.
C12_DigestsAttachedBeforeSigning ==
    call.op = "sign_then_verify" =>
        LET d == call.catalog
            p == call.token.payload
        IN  /\ call.token.sig.payload = p
            /\ call.token.sig.key = call.private_key
            /\ p.kind = d.kind /\ p.version = d.version /\ p.has_tools = d.has_tools
            /\ Len(p.tools) = Len(d.tools)
            /\ \A i \in 1..Len(d.tools) :
                  /\ p.tools[i].name = d.tools[i].name
                  /\ p.tools[i].spec_url = d.tools[i].spec_url
                  /\ NeedsDigest(d.tools[i]) => p.tools[i].spec_hash # Absent
                  /\ d.tools[i].spec_hash # Absent =>
                        p.tools[i].spec_hash = d.tools[i].spec_hash
                  /\ d.tools[i].spec_url = Absent =>
                        p.tools[i].spec_hash = d.tools[i].spec_hash

\* a document with a record that needed a digest and a record without a spec_url was
\* signed
C12_Witness ==
    /\ call.op = "sign_then_verify"
    /\ Len(call.catalog.tools) = 2
    /\ NeedsDigest(call.catalog.tools[1])
    /\ call.token.payload.tools[1].spec_hash = compute_sha256(SpecUrl)
    /\ call.catalog.tools[2].spec_url = Absent
    /\ call.catalog.tools[2].spec_hash = Absent

\* the document d as a caller would give it who had computed the digests the signer
\* derives from the URL strings as content digests of its own
WithDigestsSupplied(d) ==
    [d EXCEPT !.tools = [i \in 1..Len(d.tools) |-> WithDigest(d.tools[i])]]

\* C13: when the signer attached a digest derived from the URL string, its output
\* flags it: a record of the log says so, or the artifact differs from the artifact
\* made for the same document with that value supplied as a content digest.
C13_PlaceholderDigestIsFlagged ==
    /\ call.op = "sign_then_verify"
    /\ \E i \in 1..Len(call.catalog.tools) : NeedsDigest(call.catalog.tools[i])
    => \/ \E j \in 1..Len(call.log) : call.log[j] # "Catalog signed successfully"
       \/ call.token #
              sign_catalog(WithDigestsSupplied(call.catalog), call.private_key, call.key_id)

\* C14: the artifact of sign_catalog has the header alg = RS256 and is signed with
\* RS256; it has a kid header exactly when the signer was made with a key id, and
\* then with that value.
C14_HeaderAlgAndKid ==
    call.op = "sign_then_verify" =>
        /\ call.token.alg = "RS256"
        /\ call.token.sig.alg = "RS256"
        /\ call.key_id # Absent => call.token.kid = call.key_id
        /\ call.key_id = Absent => call.token.kid = Absent

\* a signer made with the key id key1 signed a document
C14_Witness ==
    /\ call.op = "sign_then_verify"
    /\ call.key_id = "key1"
    /\ call.token.kid = "key1"
    /\ call.token.alg = "RS256"

\* the identifier of a verification method names the key id: it is the key id, or
\* the DID URL whose fragment is the key id
IdMatches(id, key_id) == id = key_id \/ id = MethodId(key_id)

\* C15: a key that the did.json strategy (the JWKS strategy) returns for a key id is
\* the key of an entry whose identifier matches that key id; without a key id it is
\* the key of an entry of the document.
C15_KeyOfMatchingEntryOnly ==
    call.op = "get_public_key" /\ call.res.kind = "key" =>
        LET strategy == call.res.attempts[Len(call.res.attempts)]
            ms == call.did.body.verificationMethod
            ks == call.jwks.body.keys
        IN  /\ strategy = "did" =>
                  \E i \in 1..Len(ms) :
                      /\ call.key_id # Absent => IdMatches(ms[i].id, call.key_id)
                      /\ from_jwk(ms[i].publicKeyJwk) = Key(call.res.key)
            /\ strategy = "jwks" =>
                  \E i \in 1..Len(ks) :
                      /\ call.key_id # Absent => ks[i].kid = call.key_id
                      /\ from_jwk(ks[i].jwk) = Key(call.res.key)

-----------------------------------------------------------------------------
(* Claims about the Catalog's cache, checked under Spec *)

\* C16: while no fetch() of the Catalog has returned, find(), get_tool() and tools
\* raise the not-fetched RuntimeError and return no tools.
C16_NotFetchedRaisesRuntimeError ==
    ~fetched /\ last.op \in {"find", "tools", "get_tool"} =>
        /\ last.outcome = "raise"
        /\ last.error = "RuntimeError"
        /\ last.returned = <<>>

\* C17: once a fetch() has returned, the cached document never changes again.
C17_CachedDocumentWrittenOnce ==
    [][fetched => catalog_data' = catalog_data]_vars

\* C18: a fetch() that raises leaves the cached document and the cached tool list as
\* they were before the call.
C18_FailedFetchCommitsNothing ==
    [][last'.op = "fetch" /\ last'.outcome = "raise" =>
          catalog_data' = catalog_data /\ tools_cache' = tools_cache]_vars

\* C19: a step of find(), get_tool(), tools or Tool.call(), whether it returns or
\* raises, requests nothing from the catalog URL and leaves the cached document as it
\* was.
C19_LookupsAndCallsLeaveCatalogAlone ==
    [][last'.op \in {"find", "tools", "get_tool", "call"} =>
          /\ catalog_data' = catalog_data
          /\ accepted_via' = accepted_via
          /\ fetched' = fetched
          /\ \A i \in 1..Len(last'.requests) : last'.requests[i] # url]_vars

\* an invocation failed at the MCP server while a document with that tool was cached
C19_Witness ==
    /\ last.op = "call"
    /\ last.outcome = "raise" /\ last.error = "MCPError"
    /\ last.requests # <<>>
    /\ catalog_data.kind = "dict"
    /\ fetched

\* C20: a caller that mutates the list find() returned to it does not change what a
\* later find() returns: find() still returns the list as it was handed out.
C20_CallerMutationDoesNotReachCatalog ==
    last.op = "caller_pop" => find(catalog_data, tools_cache).returned = last.held

\* C21: a fetch() returns, and leaves its document cached, only for a document whose
\* version is '1.0'.
C21_OtherVersionRejected ==
    last.op = "fetch" /\ last.outcome = "return" => catalog_data.version = "1.0"

\* C24: the call of a tool whose server_url is empty raises ValueError without any
\* network activity: no MCPClient (and so no session) is made and no request is sent.
C24_EmptyServerUrlFailsBeforeNetwork ==
    last.op = "call" /\ last.server_url = "" =>
        /\ last.outcome = "raise"
        /\ last.error = "ValueError"
        /\ last.clients = 0
        /\ last.requests = <<>>

\* the tool a, which names no server, was called
C24_Witness ==
    /\ last.op = "call"
    /\ last.server_url = ""
    /\ last.error = "ValueError"
    /\ \E i \in 1..Len(tools_cache) : tools_cache[i].id = "a"

-----------------------------------------------------------------------------
(* Claims about lookup, checked under LookupSpec *)

\* the letters x and y are the same up to case
SameLetter(x, y) ==
    \/ x = y
    \/ <<x, y>> \in {<<"A", "a">>, <<"a", "A">>, <<"E", "e">>, <<"e", "E">>,
                     <<"S", "s">>, <<"s", "S">>, <<"T", "t">>, <<"t", "T">>}

\* text has a stretch that is needle up to the case of its letters
OccursIgnoringCase(needle, text) ==
    \E i \in 0..(Len(text) - Len(needle)) :
        \A k \in 1..Len(needle) :
            SameLetter(SubSeq(needle, k, k), SubSeq(text, i + k, i + k))

\* the record spec satisfies every recognised criterion of the call
SatisfiesCriteria(spec, capability, filters) ==
    /\ capability # Absent => \E k \in 1..Len(spec.capabilities) : spec.capabilities[k] = capability
    /\ \A i \in 1..Len(filters) :
          /\ filters[i].key = "description_contains" =>
                OccursIgnoringCase(filters[i].text, spec.description)
          /\ filters[i].key = "has_examples" =>
                (filters[i].flag <=> Len(spec.examples) > 0)

\* C22: find(capability, **filters) returns, in catalog order, exactly the tools of
\* the records that satisfy every recognised criterion given; a filter with an
\* unrecognised key changes nothing and raises nothing.
C22_FindReturnsExactlyTheMatches ==
    call.op = "find" =>
        LET ts == call.data.tools
            matches == {i \in 1..Len(ts) :
                           SatisfiesCriteria(ts[i], call.capability, call.filters)}
            r == call.out.returned
        IN  /\ call.out.outcome = "return"
            /\ Len(r) = Cardinality(matches)
            /\ \A n \in 1..Len(r) :
                  \E i \in matches :
                      /\ r[n] = Tool(ts[i])
                      /\ Cardinality({j \in matches : j < i}) = n - 1

\* a capability, a description in another case and an unknown key left one tool of two
C22_Witness ==
    /\ call.op = "find"
    /\ call.capability = "x"
    /\ Len(call.data.tools) = 2
    /\ Len(call.out.returned) = 1
    /\ \E i, j \in 1..Len(call.filters) :
          /\ call.filters[i].key = "description_contains" /\ call.filters[i].text = "TeSt t"
          /\ call.filters[j].key = "sort_by"

\* C23: get_tool(id) returns the first tool in catalog order whose id is the
\* argument, also when several tools have that id, and None when no tool has it.
C23_GetToolReturnsFirstWithId ==
    call.op = "get_tool" =>
        LET ts == call.data.tools
            with_id == {i \in 1..Len(ts) : ts[i].name = call.tool_id}
        IN  /\ with_id = {} => call.returned = <<>>
            /\ with_id # {} =>
                  \E i \in with_id :
                      /\ \A j \in with_id : i <= j
                      /\ call.returned = <<Tool(ts[i])>>

\* of two different records with the id a, the first was returned
C23_Witness ==
    /\ call.op = "get_tool"
    /\ call.tool_id = "a"
    /\ Len(call.data.tools) = 2
    /\ call.data.tools[1].name = "a" /\ call.data.tools[2].name = "a"
    /\ call.data.tools[1] # call.data.tools[2]
    /\ call.returned = <<Tool(call.data.tools[1])>>

-----------------------------------------------------------------------------
(* Claims about the MCP client, checked under McpSpec *)

\* C25: an invocation goes from idle to sent and from sent to completed or failed, and
\* stays there: it sends one request and never a second one, whatever the outcome; a
\* completed invocation has returned a value and a failed one has raised MCPError.
C25_OneRequestThenCompletedOrFailed ==
    [][\A c \in 1..MaxCalls :
          /\ calls[c].pc = "idle" => calls'[c].pc \in {"idle", "sent"}
          /\ calls[c].pc = "sent" => calls'[c].pc \in {"sent", "completed", "failed"}
          /\ calls[c].pc \in {"completed", "failed"} => calls'[c] = calls[c]
          /\ calls'[c].requests <= 1
          /\ calls'[c].pc # "idle" => calls'[c].requests = 1
          /\ calls'[c].pc = "completed" =>
                calls'[c].out.outcome = "return" /\ calls'[c].out.value # Absent
          /\ calls'[c].pc = "failed" =>
                /\ calls'[c].out.outcome = "raise"
                /\ calls'[c].out.error = "MCPError"
                /\ calls'[c].out.value = Absent]_vars

\* one call_tool failed on a refused connection, another one completed
C25_Witness ==
    /\ calls[1].op = "call_tool" /\ calls[1].pc = "failed"
    /\ calls[1].resp.net = "error" /\ calls[1].requests = 1
    /\ calls[2].op = "call_tool" /\ calls[2].pc = "completed"

\* the answer of invocation c is a JSON-RPC envelope: the POST got an answer that
\* raise_for_status accepts and whose body is a JSON object
HasEnvelope(c) ==
    /\ calls[c].pc \in {"completed", "failed"}
    /\ calls[c].resp.net = "ok" /\ calls[c].resp.status < 400
    /\ calls[c].resp.body.fmt = "json"

\* C26: call_tool returns a value only for an envelope with a result and no error; an
\* envelope with both, or with neither, makes it fail.
C26_ValueOnlyForResultWithoutError ==
    \A c \in 1..MaxCalls :
        calls[c].op = "call_tool" /\ HasEnvelope(c) =>
            LET body == calls[c].resp.body IN
            /\ calls[c].pc = "completed" => body.result # Absent /\ ~body.error.present
            /\ body.result # Absent /\ body.error.present => calls[c].pc = "failed"
            /\ body.result = Absent /\ ~body.error.present => calls[c].pc = "failed"

\* C27: for each of the three operations, an envelope with an error member makes the
\* operation raise MCPError with a message that reports the error's code and message,
\* and no value is returned; the three operations make the same of it.
C27_ErrorEnvelopeRaisesMCPError ==
    \A c \in 1..MaxCalls :
        HasEnvelope(c) /\ calls[c].resp.body.error.present =>
            LET error == calls[c].resp.body.error
                out == calls[c].out
            IN  /\ calls[c].pc = "failed"
                /\ out.outcome = "raise" /\ out.error = "MCPError" /\ out.value = Absent
                /\ Contains("MCP Error " \o error.code \o ": " \o error.message, out.message)
                /\ call_tool(calls[c].resp) = out
                /\ list_tools(calls[c].resp) = out
                /\ get_tool_schema(calls[c].resp) = out

\* a list_tools and a get_tool_schema were each answered with an error envelope
C27_Witness ==
    /\ calls[1].op = "list_tools" /\ HasEnvelope(1) /\ calls[1].resp.body.error.present
    /\ calls[2].op = "get_tool_schema" /\ HasEnvelope(2) /\ calls[2].resp.body.error.present
    /\ calls[1].pc = "failed" /\ calls[2].pc = "failed"

\* C28: an operation returns a value only from an answer whose id is the id of its
\* request.
C28_MismatchedIdRejected ==
    \A c \in 1..MaxCalls :
        calls[c].pc = "completed" => calls[c].resp.body.id = calls[c].request

\* C29: two invocations of one client that are outstanding at the same time carry
\* different request ids.
C29_OutstandingIdsDiffer ==
    \A c, d \in 1..MaxCalls :
        c # d /\ calls[c].pc = "sent" /\ calls[d].pc = "sent" =>
            calls[c].request # calls[d].request

\* the POST of invocation c failed in the transport: it raised (refused connection,
\* timeout), the status was an error status, or the body was no JSON
TransportFailure(c) ==
    /\ calls[c].pc \in {"completed", "failed"}
    /\ \/ calls[c].resp.net \in {"error", "timeout"}
       \/ calls[c].resp.status >= 400
       \/ calls[c].resp.body.fmt # "json"

\* s begins with prefix
StartsWith(s, prefix) == Len(prefix) <= Len(s) /\ SubSeq(s, 1, Len(prefix)) = prefix

\* C30: a transport failure of call_tool raises MCPError('Network error: ...'), which
\* the message of a remote tool error never begins with, and returns no value.
C30_TransportFailureIsNetworkError ==
    \A c \in 1..MaxCalls :
        /\ calls[c].op = "call_tool" /\ TransportFailure(c) =>
              /\ calls[c].pc = "failed"
              /\ calls[c].out.error = "MCPError"
              /\ StartsWith(calls[c].out.message, "Network error: ")
              /\ calls[c].out.value = Absent
        /\ calls[c].op = "call_tool" /\ HasEnvelope(c) /\ calls[c].pc = "failed" =>
              ~StartsWith(calls[c].out.message, "Network error: ")

-----------------------------------------------------------------------------
(* Claims about digests and algorithms, checked under SecuritySpec *)

C39_OnlyRS256Accepted ==
    (/\ call.op = "verify_catalog"
     /\ call.text.fmt = "jws"
     /\ call.text.tok.alg \notin {Absent, "RS256"})
        => call.out.kind = "SecurityError"

\* C40: the digests the signer attaches are the digests of the referenced documents: a
\* catalog signed from records that have a spec_url and no spec_hash, once its
\* signature is verified, passes the content check of Catalog.verify when every
\* spec_url serves its document unmodified, whatever that document is.
C40_AttachedDigestIsContentDigest ==
    (/\ call.op = "sign_then_verify"
     /\ call.out.kind = "ok"
     /\ \E i \in 1..Len(call.catalog.tools) : Truthy(call.catalog.tools[i].spec_url)
     /\ \A i \in 1..Len(call.catalog.tools) : call.catalog.tools[i].spec_hash = Absent)
        => \A content \in Contents :
              LET doc == call.out.doc
                  served == [i \in 1..Len(GetTools(doc)) |-> HttpResp(200, content)]
              IN  verify_content(doc, served).result = TRUE

-----------------------------------------------------------------------------
(* Claims about the Catalog's cache after a fetch, checked under Spec *)

\* C35: a populated Tool-list cache corresponds, element for element and in order,
\* to the tools of the cached document; stated for the states a fetch() that
\* returned leaves behind, where the document is the one just fetched.
C35_CacheMatchesFetchedDocument ==
    (/\ last.op = "fetch"
     /\ last.outcome = "return"
     /\ tools_cache # <<>>)
        => tools_cache = [i \in 1..Len(GetTools(catalog_data)) |->
                             Tool(GetTools(catalog_data)[i])]

\* C36: once a fetch() has returned, find(), get_tool() and tools do not raise the
\* not-fetched error.
C36_NoNotFetchedErrorAfterFetch ==
    (fetched /\ last.op \in {"find", "tools", "get_tool"})
        => ~(last.outcome = "raise" /\ last.error = "RuntimeError")
\* C33: every request is sent on a session made with an explicitly configured
\* timeout.
C33_EveryRequestHasTimeout ==
    \A site \in IssuedAt : session_timeout(site).configured
-----------------------------------------------------------------------------
(* Claims about the sessions of an MCPClient, checked under SessionSpec *)

\* invocation c starts in this step: it calls _get_session and posts its request
Starts(c) == calls[c].pc = "idle" /\ calls'[c].pc # "idle"

\* invocation c was given a session that was closed: its POST raised before
\* anything was sent
GotClosedSession(c) == calls[c].pc = "failed" /\ calls[c].requests = 0

\* C31: a session is made only by a first use (a call that finds none held, or the
\* entry of a with block); a call that finds a session held gets that one and
\* makes none; a close() closes the session held once and leaves the client
\* holding none, and nothing else does; the call after that makes a new, open session.
C31_LazySessionAndClose ==
    [][/\ \A c \in 1..MaxCalls :
             Starts(c) =>
                 IF session # 0
                 THEN session' = session /\ sessions' = sessions
                 ELSE /\ session' = Len(sessions) + 1
                      /\ sessions' = Append(sessions, Session(FALSE, 0))
       /\ Len(sessions') > Len(sessions) =>
             \/ \E c \in 1..MaxCalls : Starts(c) /\ session = 0
             \/ scope = "owner" /\ scope' = "entered"
       /\ closers' = closers + 1 =>
             /\ session # 0
             /\ sessions' = [sessions EXCEPT ![session] =
                                 Session(TRUE, sessions[session].closes + 1)]
       /\ closers' = closers - 1 => session' = 0 /\ sessions' = sessions
       /\ (session # 0 /\ session' = 0 /\ closers' = closers) =>
             sessions' = [sessions EXCEPT ![session] =
                             Session(TRUE, sessions[session].closes + 1)]
       /\ (session # 0 /\ session' = 0) => closers' <= closers
      ]_vars

\* the first call made the first session, close() closed it once, and the call after
\* it made a second session, which is open and held
C31_Witness ==
    /\ scope = "owner"
    /\ closers = 0
    /\ MaxCalls >= 2
    /\ \A c \in 1..MaxCalls : calls[c].pc # "idle" /\ ~GotClosedSession(c)
    /\ sessions = <<Session(TRUE, 1), Session(FALSE, 0)>>
    /\ session = 2

\* C32: when Tool.call() has returned or raised, no session of the client it made is
\* open; and when a with block is left, the session the client holds is closed.
C32_SessionsReleased ==
    /\ []((scope = "tool_call" /\ calls[1].pc \in {"completed", "failed"})
             => \A s \in DOMAIN sessions : sessions[s].closed)
    /\ [][(scope = "entered" /\ scope' = "exited")
             => (session' = 0 \/ sessions'[session'].closed)]_vars

\* C37: when close() runs beside other calls and close() calls (no with block), no
\* call is given a session whose close has begun, and no session is closed twice.
C37_CloseInterleavingsAreSafe ==
    scope = "owner" =>
        /\ \A c \in 1..MaxCalls : ~GotClosedSession(c)
        /\ \A s \in DOMAIN sessions : sessions[s].closes <= 1

\* C38: a call made after the with block was left (no close() standing at its await)
\* is given an open session; and entering the block does not replace a session that
\* is open.
C38_WithBlockLeavesNoClosedSession ==
    [][/\ \A c \in 1..MaxCalls :
             (Starts(c) /\ scope = "exited" /\ closers = 0)
                 => ~sessions'[session'].closed
       /\ (scope = "owner" /\ scope' = "entered")
             => (session = 0 \/ sessions[session].closed)
      ]_vars
====
